---- MODULE Spec2Model ----
(***************************************************************************)
(* Model of the file-sync engine of iobroker-dev-server                    *)
(* (DevServer.startFileSync, addSourcemap, patchSourcemap in               *)
(* src/src/index.ts).                                                      *)
(*                                                                         *)
(* The watcher callbacks run to completion on the event loop; every        *)
(* `await` of a file-system promise is a suspension point.  A syncFile     *)
(* call in flight is a task whose pc names the I/O operation it is         *)
(* waiting for; the step of a task is the effect of that operation         *)
(* followed by the continuation up to the next await.                      *)
(***************************************************************************)
EXTENDS Integers, Sequences, FiniteSets, TLC

\* ---------------------------------------------------------------- bounds
MaxTasks == 2      \* syncFile calls in flight at the same time
MaxEdits == 3      \* edits the developer / build makes to the source tree

\* ----------------------------------------------------------------- paths
\* A relative file name is the sequence of its dot-separated parts.
JsA  == <<"a", "js">>
MapA == <<"a", "js", "map">>
JsB  == <<"b", "js">>

\* the files matched by getFilePatterns(['js', 'map'], true)
Paths == {JsA, MapA, JsB}

\* `${filename}.map` / filename + '.map'
MapOf(p) == Append(p, "map")

\* filename.endsWith('.map'); for a watched file (*.js or *.map) this is
\* also filename.endsWith('map')
EndsWithMap(p) == p[Len(p)] = "map"

DestPaths == Paths \cup {MapOf(p) : p \in Paths}

\* path.dirname(src).replace(/\\/g, '/') for a file of the root directory
RootDir == "/work"

\* -------------------------------------------------------------- contents
Absent == [type |-> "absent"]

\* A JavaScript file: v identifies its text, ok says whether acorn can
\* tokenize it, ref is the target of its //# sourceMappingURL= comment
\* ("none" when it has no such comment, "own" when it names <basename>.map).
Code(v, ok, ref) == [type |-> "code", v |-> v, ok |-> ok, ref |-> ref]

\* A source map document.
MapDoc(version, root, mappings) ==
    [type |-> "map", version |-> version, sourceRoot |-> root, mappings |-> mappings]

\* mappings of a map produced by the build for text v of file p
BuildMappings(v) == [kind |-> "build", source |-> <<>>, v |-> v]

\* the source files an edit can produce
SrcCode == {Code(1, TRUE, "none"), Code(2, TRUE, "none"), Code(2, FALSE, "none")}
SrcMaps == {MapDoc(3, "", BuildMappings(1)), MapDoc(2, "", BuildMappings(1))}
SrcContents(p) == IF EndsWithMap(p) THEN SrcMaps ELSE SrcCode

\* createIdentitySourcemap: one mapping per token of text c.v, generated =
\* original, source = the file; generator.toJSON() is a version 3 map
\* without sourceRoot
createIdentitySourcemap(p, c) ==
    MapDoc(3, "undefined", [kind |-> "identity", source |-> p, v |-> c.v])

\* addSourcemap, lines 313-326: the content with its reference comment
\* naming <basename>.map: replaced in place when the content has a comment
\* naming something else, appended when the content has none and also when
\* the replacement changes nothing because the comment names <basename>.map
\* already (UpdatedText below computes this on the text)
updatedContent(c) == [c EXCEPT !.ref = IF c.ref = "own" THEN "own, own" ELSE "own"]

\* patchSourcemap, line 346: data.sourceRoot = dirname(src)
patchedData(data) == [data EXCEPT !.sourceRoot = RootDir]

VARIABLES
    src,          \* the working tree: Paths -> content or Absent
    dest,         \* the installed module directory: DestPaths -> content or Absent
    ready,        \* `ready` of startFileSync
    ignoreFiles,  \* `ignoreFiles` of startFileSync (only tested with includes())
    tasks,        \* syncFile calls in flight, in the order they were started
    watched,      \* files the watcher has reported with 'add' and not 'unlink'
    pending,      \* watched files modified since their last 'change' event
    edits,        \* number of edits made to the working tree
    running,      \* FALSE once an exception escaped a watcher callback and ended the process
    ev,           \* the watcher event handled last
    warned,       \* the warning logged last
    latest,       \* per path: outcome of the syncFile call started last
    promise,      \* the promise returned by startFileSync: "pending", "resolved", "rejected"
    fs,           \* the files a single call of a source map function works on
    call,         \* that call: its arguments, its position and its locals
    hist,         \* what the calls made so far were given and what they returned
    request,      \* the HTTP request the express app is handling
    forwarded,    \* where the request handled last went
    upgradeListener, \* the admin proxy listens to the 'upgrade' event of the server
    upgraded,     \* where the upgrade request handled last went
    argv,         \* the run command and the watch scripts of the adapter's package.json
    runPc,        \* where run() / runServer is: the await it is waiting in
    server,       \* the http server of app.listen()
    children,     \* the child processes started with spawn()
    nodemon,      \* nodemon: "none", "running" or "quit"
    devserver,    \* this process: running, or exited with a code
    announced,    \* 'Admin is now reachable' has been printed
    signals,      \* number of SIGINT signals received
    last          \* the event handled last

\* the state of the file-sync engine
syncVars == <<src, dest, ready, ignoreFiles, tasks, watched, pending, edits,
              running, ev, warned, latest, promise>>
\* the state of one source map function called on its own
fnVars == <<fs, call, hist>>
\* the state of the express app of runServer
routerVars == <<request, forwarded, upgradeListener, upgraded>>

\* the state of the devserver process: run(), runServer and its children
processVars == <<argv, runPc, server, children, nodemon, devserver, announced,
                 signals, last>>

vars == <<syncVars, fnVars, routerVars, processVars>>

\* what a step of the file-sync engine leaves alone
notSync == <<fnVars, routerVars, processVars>>
\* what a step of a source map function called on its own leaves alone
notFn == <<syncVars, routerVars, processVars>>
\* what a step of the express app leaves alone
notRouter == <<syncVars, fnVars, processVars>>
\* what a step of the devserver process leaves alone
notProcess == <<syncVars, fnVars, routerVars>>

Idle == [fn |-> "none"]

\* run() has not been called
ProcessOff ==
    /\ argv = Idle /\ runPc = "none" /\ server = Idle /\ children = Idle
    /\ nodemon = "none" /\ devserver = Idle /\ announced = FALSE
    /\ signals = 0 /\ last = Idle

\* no source map function is called on its own
FnOff == fs = Idle /\ call = Idle /\ hist = Idle
\* the express app is not part of the specification
RouterOff ==
    request = Idle /\ forwarded = Idle /\ upgradeListener = FALSE /\ upgraded = Idle

NoEvent == [kind |-> "none", path |-> <<>>, dispatched |-> FALSE, raised |-> FALSE, tick |-> 0]
NoWarning == [fn |-> "none", path |-> <<>>, error |-> "", tick |-> 0]
NoSync == [res |-> "none", at |-> "none", kind |-> "none", out |-> Absent]

Event(kind, p, dispatched, raised) ==
    [kind |-> kind, path |-> p, dispatched |-> dispatched, raised |-> raised,
     tick |-> 1 - ev.tick]

\* this.log.warn(...) in the catch block of function fn while working on p;
\* error is the text of the caught error when the message includes it
Warn(fn, p, error) ==
    [fn |-> fn, path |-> p, error |-> IF fn = "syncFile" THEN "" ELSE error,
     tick |-> 1 - warned.tick]

RemoveAt(s, i) == SubSeq(s, 1, i - 1) \o SubSeq(s, i + 1, Len(s))

InFlight(p) == \E i \in 1..Len(tasks) : tasks[i].path = p

\* the calls in flight once a further syncFile(p) has been started: none of
\* those for p is the last one started for p any more
Superseded(p) ==
    [j \in 1..Len(tasks) |->
        IF tasks[j].path = p THEN [tasks[j] EXCEPT !.last = FALSE] ELSE tasks[j]]

Init ==
    /\ \E withMap \in BOOLEAN :
         LET m == IF withMap THEN MapDoc(3, "", BuildMappings(1)) ELSE Absent IN
         /\ src = [p \in Paths |->
                     IF p = MapA THEN m ELSE Code(1, TRUE, "none")]
         \* the installation step copied a.js (and its map); b.js is not
         \* part of the installed module
         /\ dest = [q \in DestPaths |->
                     IF q = JsA THEN Code(1, TRUE, "none")
                     ELSE IF q = MapA THEN m ELSE Absent]
    /\ ready = FALSE
    /\ ignoreFiles = {}
    /\ tasks = <<>>
    /\ watched = {}
    /\ pending = {}
    /\ edits = 0
    /\ running = TRUE
    /\ ev = NoEvent
    /\ warned = NoWarning
    /\ latest = [p \in Paths |-> NoSync]
    /\ promise = "pending"
    /\ FnOff
    /\ RouterOff
    /\ ProcessOff

\* ------------------------------------------------------------- syncFile
SrcHas(q) == q \in Paths /\ src[q] # Absent

\* SyncKind with the test for the sibling map inverted
SyncKind_inverted(p) ==
    IF EndsWithMap(p) THEN "patch"
    ELSE IF SrcHas(MapOf(p)) THEN "attach"
    ELSE "copy"

\* the branch syncFile takes for filename p
SyncKind(p) ==
    IF EndsWithMap(p) THEN "patch"
    ELSE IF ~SrcHas(MapOf(p)) THEN "attach"
    ELSE "copy"

\* a syncFile(p) call in flight; last: no later syncFile(p) has been started;
\* copyFromSrc: the argument syncFile gives to addSourcemap (495)
Task(p, kind, pc, data) ==
    [path |-> p, kind |-> kind, pc |-> pc, data |-> data, last |-> TRUE,
     copyFromSrc |-> TRUE]

Outcome(res, at, kind, out) == [res |-> res, at |-> at, kind |-> kind, out |-> out]

\* the function whose try/catch catches an error of a call of the given kind
Catcher(kind) ==
    CASE kind = "patch"  -> "patchSourcemap"
      [] kind = "attach" -> "addSourcemap"
      [] kind = "copy"   -> "syncFile"

\* syncFile(p) up to its first await.  patchSourcemap reads and checks the
\* map synchronously (readJson) before it awaits the write.
syncFile(p) ==
    LET kind == SyncKind(p) IN
    IF kind = "patch" THEN
        IF src[p] = Absent \/ src[p].version # 3
        THEN /\ tasks' = Superseded(p)
             /\ warned' = Warn(Catcher(kind), p,
                               IF src[p] = Absent THEN "ENOENT"
                               ELSE "Unsupported sourcemap version")
             /\ latest' = [latest EXCEPT ![p] = Outcome("fail", "readJson", kind, Absent)]
        ELSE /\ tasks' = Append(Superseded(p),
                                Task(p, kind, "writePatched", patchedData(src[p])))
             /\ warned' = warned
             /\ latest' = [latest EXCEPT ![p] = NoSync]
    ELSE
        /\ tasks' = Append(Superseded(p),
                      Task(p, kind, IF kind = "attach" THEN "tokenize" ELSE "copyFile", Absent))
        /\ warned' = warned
        /\ latest' = [latest EXCEPT ![p] = NoSync]

\* the call tasks[i] returns
Finish(i, res, out) ==
    /\ tasks' = RemoveAt(tasks, i)
    /\ latest' = IF tasks[i].last
                 THEN [latest EXCEPT ![tasks[i].path] =
                          Outcome(res, tasks[i].pc, tasks[i].kind, out)]
                 ELSE latest

\* Catch without the try/catch: the rejection leaves syncFile and ends the process
Catch_uncaught(i, error) ==
    /\ Finish(i, "fail", Absent)
    /\ warned' = Warn(Catcher(tasks[i].kind), tasks[i].path, error)
    /\ running' = FALSE
    /\ UNCHANGED <<src, dest, ready, ignoreFiles, watched, pending, edits, ev,
                   promise, notSync>>

\* an operation of tasks[i] throws: the catch block of addSourcemap,
\* patchSourcemap or syncFile logs a warning and the call returns
Catch(i, error) ==
    /\ Finish(i, "fail", Absent)
    /\ warned' = Warn(Catcher(tasks[i].kind), tasks[i].path, error)
    /\ running' = running
    /\ UNCHANGED <<src, dest, ready, ignoreFiles, watched, pending, edits, ev,
                   promise, notSync>>

\* tasks[i] moves on to its next await
Continue(i, pc, data) ==
    /\ tasks' = [tasks EXCEPT ![i].pc = pc, ![i].data = data]
    /\ UNCHANGED <<src, ready, ignoreFiles, watched, pending, edits, running, ev,
                   warned, latest, promise, notSync>>

\* tasks[i] completes with its last write
Complete(i, out) ==
    /\ Finish(i, "ok", out)
    /\ UNCHANGED <<src, ready, ignoreFiles, watched, pending, edits, running, ev, warned,
                   promise, notSync>>

\* the error of reading (and tokenizing) a file with content c
ReadError(io, c) ==
    IF io THEN "EIO" ELSE IF c = Absent THEN "ENOENT" ELSE "SyntaxError"

AtPc(i, pc) == running /\ i \in 1..Len(tasks) /\ tasks[i].pc = pc

\* addSourcemap: await createIdentitySourcemap(src) - read the source file
\* and tokenize it; io is an I/O error
Tokenize(i, io) ==
    /\ AtPc(i, "tokenize")
    /\ LET p == tasks[i].path
           c == src[p] IN
       IF io \/ c = Absent \/ ~c.ok
       THEN Catch(i, ReadError(io, c))
       ELSE /\ Continue(i, "writeMap", createIdentitySourcemap(p, c))
            /\ dest' = dest

\* addSourcemap: await writeFileAsync(mapFile, JSON.stringify(data))
WriteMap(i, io) ==
    /\ AtPc(i, "writeMap")
    /\ IF io
       THEN Catch(i, "EIO")
       ELSE /\ dest' = [dest EXCEPT ![MapOf(tasks[i].path)] = tasks[i].data]
            /\ Continue(i, "readFile", Absent)

\* addSourcemap: await readFileAsync(copyFromSrc ? src : dest) (copyFromSrc
\* is true in syncFile), then compute updatedContent
ReadFile(i, io) ==
    /\ AtPc(i, "readFile")
    /\ LET c == IF tasks[i].copyFromSrc THEN src[tasks[i].path]
                ELSE dest[tasks[i].path] IN
       IF io \/ c = Absent
       THEN Catch(i, ReadError(io, c))
       ELSE /\ Continue(i, "writeFile", updatedContent(c))
            /\ dest' = dest

\* addSourcemap: await writeFileAsync(dest, updatedContent)
WriteFile(i, io) ==
    /\ AtPc(i, "writeFile")
    /\ IF io
       THEN Catch(i, "EIO")
       ELSE /\ dest' = [dest EXCEPT ![tasks[i].path] = tasks[i].data]
            /\ Complete(i, tasks[i].data)

\* patchSourcemap: await writeFileAsync(dest, JSON.stringify(data))
WritePatched(i, io) ==
    /\ AtPc(i, "writePatched")
    /\ IF io
       THEN Catch(i, "EIO")
       ELSE /\ dest' = [dest EXCEPT ![tasks[i].path] = tasks[i].data]
            /\ Complete(i, tasks[i].data)

\* syncFile: await copyFileAsync(src, dest)
CopyFile(i, io) ==
    /\ AtPc(i, "copyFile")
    /\ LET c == src[tasks[i].path] IN
       IF io \/ c = Absent
       THEN Catch(i, ReadError(io, c))
       ELSE /\ dest' = [dest EXCEPT ![tasks[i].path] = c]
            /\ Complete(i, c)

\* ------------------------------------------------------ watcher callbacks
\* AddBranch without the test for the file in the destination
AddBranch_noExistsCheck(p) ==
    IF ready THEN "sync"
    ELSE IF ~EndsWithMap(p) THEN "ignore"
    ELSE "watching"

\* AddBranch without the test for a map file
AddBranch_noMapTest(p) ==
    IF ready THEN "sync"
    ELSE IF dest[p] = Absent THEN "ignore"
    ELSE "watching"

\* watcher.on('add'): which branch the callback takes
AddBranch(p) ==
    IF ready THEN "sync"
    ELSE IF ~EndsWithMap(p) /\ dest[p] = Absent THEN "ignore"
    ELSE "watching"

\* ChangeBranch that also waits for ready
ChangeBranch_needsReady(p) ==
    IF ready /\ p \notin ignoreFiles THEN "sync" ELSE "skip"

\* watcher.on('change'): which branch the callback takes
ChangeBranch(p) ==
    IF p \notin ignoreFiles THEN "sync" ELSE "skip"

\* the file p appears in the working tree and the watcher reports it
WatcherAdd(p) ==
    /\ running
    /\ p \notin watched
    /\ src[p] # Absent
    /\ AddBranch(p) = "sync" => Len(tasks) < MaxTasks
    /\ watched' = watched \cup {p}
    /\ LET b == AddBranch(p) IN
       /\ ev' = Event("add", p, b = "sync", FALSE)
       /\ CASE b = "sync"     -> syncFile(p) /\ ignoreFiles' = ignoreFiles
            [] b = "ignore"   -> /\ ignoreFiles' = ignoreFiles \cup {p}
                                 /\ UNCHANGED <<tasks, warned, latest>>
            [] b = "watching" -> UNCHANGED <<ignoreFiles, tasks, warned, latest>>
    /\ UNCHANGED <<src, dest, ready, pending, edits, running, promise, notSync>>

\* the watcher reports a modification of the watched file p
WatcherChange(p) ==
    /\ running
    /\ p \in watched
    /\ p \in pending
    /\ src[p] # Absent
    /\ ChangeBranch(p) = "sync" => Len(tasks) < MaxTasks
    /\ pending' = pending \ {p}
    /\ LET b == ChangeBranch(p) IN
       /\ ev' = Event("change", p, b = "sync", FALSE)
       /\ IF b = "sync" THEN syncFile(p) ELSE UNCHANGED <<tasks, warned, latest>>
    /\ UNCHANGED <<src, dest, ready, ignoreFiles, watched, edits, running, promise, notSync>>

\* unlinkHandler that leaves the map file in the destination
unlinkHandler_keepsMap(p, io) ==
    IF dest[p] = Absent \/ io = "file"
    THEN [dest |-> dest, raised |-> TRUE]
    ELSE [dest |-> [dest EXCEPT ![p] = Absent], raised |-> FALSE]

\* unlinkHandler that swallows a failed deletion of the file and goes on
\* to the map
unlinkHandler_swallows(p, io) ==
    LET d == IF dest[p] = Absent \/ io = "file" THEN dest
             ELSE [dest EXCEPT ![p] = Absent] IN
    IF d[MapOf(p)] = Absent THEN [dest |-> d, raised |-> FALSE]
    ELSE IF io = "map" THEN [dest |-> d, raised |-> TRUE]
    ELSE [dest |-> [d EXCEPT ![MapOf(p)] = Absent], raised |-> FALSE]

\* watcher.on('unlink'): the destination after the callback and whether an
\* exception left it.  io names the unlinkSync call that fails with an I/O
\* error ("none", "file" or "map"); unlinkSync of a missing file throws.
unlinkHandler(p, io) ==
    IF dest[p] = Absent \/ io = "file"
    THEN [dest |-> dest, raised |-> TRUE]
    ELSE LET d == [dest EXCEPT ![p] = Absent] IN
         IF d[MapOf(p)] = Absent THEN [dest |-> d, raised |-> FALSE]
         ELSE IF io = "map" THEN [dest |-> d, raised |-> TRUE]
         ELSE [dest |-> [d EXCEPT ![MapOf(p)] = Absent], raised |-> FALSE]

\* the watched file p is gone from the working tree and the watcher reports it
WatcherUnlink(p, io) ==
    /\ running
    /\ p \in watched
    /\ src[p] = Absent
    /\ watched' = watched \ {p}
    /\ pending' = pending \ {p}
    /\ LET r == unlinkHandler(p, io) IN
       /\ dest' = r.dest
       /\ ev' = Event("unlink", p, FALSE, r.raised)
       \* an exception that leaves the callback reaches the emitter; whether
       \* the process survives it is not decided by this program
       /\ running' \in (IF r.raised THEN BOOLEAN ELSE {TRUE})
    /\ latest' = [latest EXCEPT ![p] = NoSync]
    /\ UNCHANGED <<src, ready, ignoreFiles, tasks, edits, warned, promise, notSync>>

\* resolve() / reject() of a promise: only the first call settles it
Settle(to) == IF promise = "pending" THEN to ELSE promise

\* watcher.on('ready'): the initial scan has reported every file
WatcherReady ==
    /\ running
    /\ ~ready
    /\ \A p \in Paths : src[p] # Absent => p \in watched
    /\ ready' = TRUE
    /\ promise' = Settle("resolved")
    /\ UNCHANGED <<src, dest, ignoreFiles, tasks, watched, pending, edits, running,
                   ev, warned, latest, notSync>>

\* WatcherError whose reject() settles the promise again
WatcherError_resettles ==
    /\ running
    /\ promise' = "rejected"
    /\ running' = (promise # "pending")
    /\ ev' = Event("error", <<>>, FALSE, FALSE)
    /\ UNCHANGED <<src, dest, ready, ignoreFiles, tasks, watched, pending, edits,
                   warned, latest, notSync>>

\* watcher.on('error', reject): the watcher reports an error.  A rejection of
\* startFileSync leaves startAdapterWatch, runServer and run(), whose
\* catch() calls process.exit(-1).
WatcherError ==
    /\ running
    /\ promise' = Settle("rejected")
    /\ running' = (promise # "pending")
    /\ ev' = Event("error", <<>>, FALSE, FALSE)
    /\ UNCHANGED <<src, dest, ready, ignoreFiles, tasks, watched, pending, edits,
                   warned, latest, notSync>>

\* ------------------------------------------------------------ environment
\* the developer (or the build) writes file p of the working tree
EditWrite(p, c) ==
    /\ running
    /\ edits < MaxEdits
    /\ c \in SrcContents(p)
    /\ c # src[p]
    \* a deleted file is created again only after its unlink was reported
    /\ src[p] = Absent => p \notin watched
    /\ src' = [src EXCEPT ![p] = c]
    /\ pending' = IF p \in watched THEN pending \cup {p} ELSE pending
    /\ edits' = edits + 1
    /\ UNCHANGED <<dest, ready, ignoreFiles, tasks, watched, running, ev, warned, latest,
                   promise, notSync>>

\* the developer (or the build) deletes file p of the working tree
EditDelete(p) ==
    /\ running
    /\ edits < MaxEdits
    /\ src[p] # Absent
    /\ src' = [src EXCEPT ![p] = Absent]
    /\ edits' = edits + 1
    /\ UNCHANGED <<dest, ready, ignoreFiles, tasks, watched, pending, running, ev,
                   warned, latest, promise, notSync>>

Next ==
    \/ \E p \in Paths : WatcherAdd(p)
    \/ \E p \in Paths : WatcherChange(p)
    \/ \E p \in Paths, io \in {"none", "file", "map"} : WatcherUnlink(p, io)
    \/ WatcherReady
    \/ \E i \in 1..MaxTasks, io \in BOOLEAN : Tokenize(i, io)
    \/ \E i \in 1..MaxTasks, io \in BOOLEAN : WriteMap(i, io)
    \/ \E i \in 1..MaxTasks, io \in BOOLEAN : ReadFile(i, io)
    \/ \E i \in 1..MaxTasks, io \in BOOLEAN : WriteFile(i, io)
    \/ \E i \in 1..MaxTasks, io \in BOOLEAN : WritePatched(i, io)
    \/ \E i \in 1..MaxTasks, io \in BOOLEAN : CopyFile(i, io)
    \/ \E p \in Paths, c \in SrcCode \cup SrcMaps : EditWrite(p, c)
    \/ \E p \in Paths : EditDelete(p)

Spec == Init /\ [][Next]_vars

\* The watcher with its 'error' event.  The syncFile calls in flight touch
\* neither `ready` nor the promise of startFileSync; their steps are those
\* of Spec and are left out here.
StartNext ==
    \/ \E p \in Paths : WatcherAdd(p)
    \/ \E p \in Paths : WatcherChange(p)
    \/ \E p \in Paths, io \in {"none", "file", "map"} : WatcherUnlink(p, io)
    \/ WatcherReady
    \/ WatcherError
    \/ \E p \in Paths, c \in SrcCode \cup SrcMaps : EditWrite(p, c)
    \/ \E p \in Paths : EditDelete(p)

StartSpec == Init /\ [][StartNext]_vars

TypeOK ==
    /\ ready \in BOOLEAN
    /\ ignoreFiles \subseteq Paths
    /\ Len(tasks) <= MaxTasks
    /\ watched \subseteq Paths
    /\ pending \subseteq watched

\* ---------------------------------------------------------- patchSourcemap
\* patchSourcemap(src, dest) called on its own: by copySourcemaps (line 295)
\* or by syncFile (line 493).  The file-sync engine is not running.
SyncOff ==
    /\ src = [p \in Paths |-> Absent]
    /\ dest = [q \in DestPaths |-> Absent]
    /\ ready = FALSE
    /\ ignoreFiles = {}
    /\ tasks = <<>>
    /\ watched = {}
    /\ pending = {}
    /\ edits = 0
    /\ running = FALSE
    /\ ev = NoEvent
    /\ warned = NoWarning
    /\ latest = [p \in Paths |-> NoSync]
    /\ promise = "pending"

MaxCalls == 2      \* calls of the function made one after the other

\* An absolute or relative path: its segments and the separator between them.
FilePath(sep, segs) == [sep |-> sep, segs |-> segs]

\* path.dirname(p)
Dirname(p) == [p EXCEPT !.segs = SubSeq(p.segs, 1, Len(p.segs) - 1)]

\* p.replace(/\\/g, '/')
ForwardSlashes(p) == [p EXCEPT !.sep = "/"]

\* path.join(dir, rel) with a relative rel
JoinPath(dir, rel) == [dir EXCEPT !.segs = dir.segs \o rel.segs]

\* a source map without a sourceRoot member, and the sourceRoot values a
\* build writes
NoRoot == FilePath("", <<>>)
BuildRoots == {NoRoot, FilePath("/", <<>>), FilePath("/", <<"..", "src">>)}

\* the source maps a build leaves in the working tree
BuildMaps == {MapDoc(version, root, BuildMappings(1)) :
                 version \in {2, 3}, root \in BuildRoots}

\* where the source map is: in the root directory or below, named with the
\* separator of the platform
SrcMapPaths == {FilePath(sep, segs) :
                   sep \in {"/", "\\"},
                   segs \in {<<"work", "a.js.map">>, <<"work", "build", "a.js.map">>}}

\* the call of an async function: where it is, what it holds, how the promise
\* it returned is settled and the warning it logged
Call(fn, pc, data, settled, warning) ==
    [fn |-> fn, pc |-> pc, data |-> data, settled |-> settled, warning |-> warning]

PatchInit ==
    /\ SyncOff
    /\ RouterOff
    /\ ProcessOff
    /\ \E in \in BuildMaps \cup {Absent}, old \in {Absent, MapDoc(3, NoRoot, BuildMappings(0))},
          path \in SrcMapPaths, installed \in BOOLEAN :
         /\ fs = [src |-> in, dest |-> IF installed THEN in ELSE old]
         /\ hist = [fn |-> "patchSourcemap", src |-> path, calls |-> 0, written |-> 0,
                    first |-> Absent]
    /\ call = Idle

\* patchSourceRoot that resolves the previous sourceRoot against the directory
patchSourceRoot_relative(data, path) ==
    [data EXCEPT !.sourceRoot =
        ForwardSlashes(IF data.sourceRoot = NoRoot THEN Dirname(path)
                       ELSE JoinPath(Dirname(path), data.sourceRoot))]

\* line 346: data.sourceRoot = path.dirname(src).replace(/\\/g, '/')
patchSourceRoot(data, path) ==
    [data EXCEPT !.sourceRoot = ForwardSlashes(Dirname(path))]

\* patchSourcemap that accepts every version
patchSourcemap_anyVersion ==
    /\ call = Idle
    /\ hist.calls < MaxCalls
    /\ call' = IF fs.src = Absent
               THEN Call("patchSourcemap", "returned", Absent, "resolved", "ENOENT")
               ELSE Call("patchSourcemap", "writeFile", patchSourceRoot(fs.src, hist.src),
                         "pending", "")
    /\ UNCHANGED <<fs, hist, notFn>>

\* patchSourcemap(src, dest) up to its await: readJson(src), the version
\* test and the new sourceRoot; what is thrown is caught and logged as a
\* warning, and the function returns
patchSourcemap ==
    /\ call = Idle
    /\ hist.calls < MaxCalls
    /\ call' = IF fs.src = Absent
               THEN Call("patchSourcemap", "returned", Absent, "resolved", "ENOENT")
               ELSE IF fs.src.version # 3
               THEN Call("patchSourcemap", "returned", Absent, "resolved",
                         "Unsupported sourcemap version")
               ELSE Call("patchSourcemap", "writeFile", patchSourceRoot(fs.src, hist.src),
                         "pending", "")
    /\ UNCHANGED <<fs, hist, notFn>>

\* PatchWriteFile that patches the source map where it is
PatchWriteFile_inPlace(io) ==
    /\ call # Idle
    /\ call.fn = "patchSourcemap"
    /\ call.pc = "writeFile"
    /\ IF io
       THEN /\ call' = Call("patchSourcemap", "returned", Absent, "resolved", "EIO")
            /\ fs' = fs
       ELSE /\ call' = Call("patchSourcemap", "returned", call.data, "resolved", "")
            /\ fs' = [fs EXCEPT !.src = call.data, !.dest = call.data]
    /\ UNCHANGED <<hist, notFn>>

\* patchSourcemap: await writeFileAsync(dest, JSON.stringify(data)); io is an
\* I/O error, caught and logged as a warning
PatchWriteFile(io) ==
    /\ call # Idle
    /\ call.fn = "patchSourcemap"
    /\ call.pc = "writeFile"
    /\ IF io
       THEN /\ call' = Call("patchSourcemap", "returned", Absent, "resolved", "EIO")
            /\ fs' = fs
       ELSE /\ call' = Call("patchSourcemap", "returned", call.data, "resolved", "")
            /\ fs' = [fs EXCEPT !.dest = call.data]
    /\ UNCHANGED <<hist, notFn>>

\* the caller goes on after the call; it may call again
PatchReturn ==
    /\ call # Idle
    /\ call.fn = "patchSourcemap"
    /\ call.pc = "returned"
    /\ call' = Idle
    /\ hist' = [hist EXCEPT !.calls = @ + 1,
                            !.written = IF call.warning = "" THEN @ + 1 ELSE @,
                            !.first = IF call.warning = "" /\ hist.written = 0
                                      THEN fs.dest ELSE @]
    /\ UNCHANGED <<fs, notFn>>

PatchNext ==
    \/ patchSourcemap
    \/ \E io \in BOOLEAN : PatchWriteFile(io)
    \/ PatchReturn

PatchSpec == PatchInit /\ [][PatchNext]_vars

\* ------------------------------------------------- createIdentitySourcemap
\* createIdentitySourcemap(filename) called on its own.  The tokens are those
\* acorn.tokenizer(content, {locations: true, ...}) yields for the content
\* of the file.
MaxTokens == 3     \* tokens of the file before the end-of-stream token
MaxLine == 2       \* lines of the file
MaxColumn == 2     \* last column of a line

\* token.loc.start / token.loc.end: line from 1, column from 0
Position(line, column) == [line |-> line, column |-> column]
Positions == {Position(l, c) : l \in 1..MaxLine, c \in 0..MaxColumn}
Before(a, b) == a.line < b.line \/ (a.line = b.line /\ a.column < b.column)

\* a token that starts at position at and is one character long
Token(label, at) ==
    [type |-> [label |-> label],
     loc |-> [start |-> at, end |-> Position(at.line, at.column + 1)]]

\* the tokens of a file: they start one after the other
TokenStreams ==
    {t \in UNION {[1..n -> {Token("name", at) : at \in Positions}] : n \in 0..MaxTokens} :
        \A k \in 1..(Len(t) - 1) : Before(t[k].loc.start, t[k + 1].loc.start)}

\* tokenizer.getToken() called for the i-th time: after the last token of the
\* file the tokenizer yields the end-of-stream token
getToken(tokens, i) ==
    IF i <= Len(tokens) THEN tokens[i]
    ELSE Token("eof", Position(MaxLine + 1, 0))

\* the files createIdentitySourcemap is called for (line 309: the path with
\* forward slashes)
SourceFiles == {FilePath("/", <<"work", "a.js">>), FilePath("/", <<"work", "build", "b.js">>)}

\* the mapping of a token to the end of the token
IdentityMapping_atEnd(token, filename) ==
    [original |-> token.loc.start, generated |-> token.loc.end, source |-> filename]

\* lines 386-391: generator.addMapping({original, generated, source})
IdentityMapping(token, filename) ==
    [original |-> token.loc.start, generated |-> token.loc.start, source |-> filename]

\* lines 380-392: the loop over the tokens, entered with the mappings added
\* so far and about to call getToken() for the i-th time.  bad is the call
\* in which acorn throws a SyntaxError (0: the file can be tokenized).
RECURSIVE TokenLoop(_, _, _, _, _)
TokenLoop(tokens, bad, filename, i, mappings) ==
    IF i = bad THEN [threw |-> TRUE, mappings |-> mappings]
    ELSE LET token == getToken(tokens, i) IN
         IF token.type.label = "eof" \/ token.loc = Absent
         THEN [threw |-> FALSE, mappings |-> mappings]
         ELSE TokenLoop(tokens, bad, filename, i + 1,
                        Append(mappings, IdentityMapping(token, filename)))

\* generator.toJSON()
GeneratorJSON(filename, mappings) ==
    [version |-> 3, file |-> filename, mappings |-> mappings]

IdentityInit ==
    /\ SyncOff
    /\ RouterOff
    /\ ProcessOff
    /\ fs = Idle
    /\ call = Idle
    /\ \E filename \in SourceFiles, tokens \in TokenStreams :
       \E bad \in 0..(Len(tokens) + 1) :
         hist = [fn |-> "createIdentitySourcemap", filename |-> filename,
                 tokens |-> tokens, bad |-> bad]

\* createIdentitySourcemap(filename) up to its await: the generator is
\* created and the file is being read
IdentityCall ==
    /\ call = Idle
    /\ call' = Call("createIdentitySourcemap", "readFile", Absent, "pending", "")
    /\ UNCHANGED <<fs, hist, notFn>>

\* await readFileAsync(filename) returns (io: it fails) and the function
\* runs to its end: the tokenizer loop and generator.toJSON().  Nothing is
\* caught in this function: what is thrown rejects its promise.
IdentityTokenize(io) ==
    /\ call # Idle
    /\ call.fn = "createIdentitySourcemap"
    /\ call.pc = "readFile"
    /\ call' = IF io
               THEN Call("createIdentitySourcemap", "returned", Absent, "rejected", "")
               ELSE LET r == TokenLoop(hist.tokens, hist.bad, hist.filename, 1, <<>>) IN
                    IF r.threw
                    THEN Call("createIdentitySourcemap", "returned", Absent, "rejected", "")
                    ELSE Call("createIdentitySourcemap", "returned",
                              GeneratorJSON(hist.filename, r.mappings), "resolved", "")
    /\ UNCHANGED <<fs, hist, notFn>>

IdentityNext ==
    \/ IdentityCall
    \/ \E io \in BOOLEAN : IdentityTokenize(io)

IdentitySpec == IdentityInit /\ [][IdentityNext]_vars

\* ------------------------------------------------------------ addSourcemap
\* addSourcemap(src, dest, copyFromSrc) called on its own, on the text of the
\* file.  A text is a sequence of symbols: "M" is the text
\* `//# sourceMappingURL=`, "F" is the text `<basename of dest>.map`, "CR" and
\* "LF" are the line terminators and "x" is any other character.
MaxLen == 3        \* symbols of the file before addSourcemap is called

Symbols == {"x", "CR", "LF", "M", "F"}
Texts == UNION {[1..n -> Symbols] : n \in 0..MaxLen}

\* what `.` of a regular expression does not match
LineTerminators == {"CR", "LF"}

\* where /(\/\/\# sourceMappingURL=).+/ matches first: the marker followed
\* by at least one character of the same line (0: no match)
RECURSIVE MatchStart(_, _)
MatchStart(text, k) ==
    IF k >= Len(text) THEN 0
    ELSE IF text[k] = "M" /\ text[k + 1] \notin LineTerminators THEN k
    ELSE MatchStart(text, k + 1)

\* where the match of `.+` that starts at k ends: `+` is greedy
RECURSIVE MatchEnd(_, _)
MatchEnd(text, k) ==
    IF k < Len(text) /\ text[k + 1] \notin LineTerminators
    THEN MatchEnd(text, k + 1)
    ELSE k

\* line 315: fileContent.replace(/(\/\/\# sourceMappingURL=).+/, `$1${filename}`)
ReplaceReference(fileContent) ==
    LET k == MatchStart(fileContent, 1) IN
    IF k = 0 THEN fileContent
    ELSE SubSeq(fileContent, 1, k) \o <<"F">>
         \o SubSeq(fileContent, MatchEnd(fileContent, k + 1) + 1, Len(fileContent))

\* fileContent.endsWith('\n')
EndsWithNewline(fileContent) ==
    Len(fileContent) > 0 /\ fileContent[Len(fileContent)] = "LF"

\* fileContent.match(/\r\n/)
MatchesCRLF(fileContent) ==
    \E k \in 1..(Len(fileContent) - 1) : fileContent[k] = "CR" /\ fileContent[k + 1] = "LF"

\* LineBreak that always ends the last line with a line feed
LineBreak_lfOnly(fileContent) ==
    IF EndsWithNewline(fileContent) THEN <<>> ELSE <<"LF">>

\* lines 318-324: what is put between the content and the new comment
LineBreak(fileContent) ==
    IF EndsWithNewline(fileContent) THEN <<>>
    ELSE (IF MatchesCRLF(fileContent) THEN <<"CR">> ELSE <<>>) \o <<"LF">>

\* lines 315-326: updatedContent of addSourcemap
UpdatedText(fileContent) ==
    LET replaced == ReplaceReference(fileContent) IN
    IF replaced = fileContent
    THEN fileContent \o LineBreak(fileContent) \o <<"M", "F">>
    ELSE replaced

\* the identity map of the file whose text is text
IdentityMapOf(text) == [type |-> "map", version |-> 3, of |-> text]

AttachInit ==
    /\ SyncOff
    /\ RouterOff
    /\ ProcessOff
    /\ call = Idle
    \* the file, the copy of it that was installed, no map yet; whether
    \* acorn can tokenize the file
    /\ \E text \in Texts, ok \in BOOLEAN :
         /\ fs = [src |-> text, dest |-> text, map |-> Absent]
         /\ hist = [fn |-> "addSourcemap", ok |-> ok, calls |-> 0, written |-> 0,
                    first |-> <<>>]

\* the call ends in the catch block: a warning is logged and it returns
AttachCatch(error) ==
    /\ call' = [call EXCEPT !.pc = "returned", !.data = Absent,
                            !.settled = "resolved", !.warning = error]
    /\ fs' = fs

\* addSourcemap(src, dest, copyFromSrc) up to its first await
addSourcemap(copyFromSrc) ==
    /\ call = Idle
    /\ hist.calls < MaxCalls
    /\ call' = [fn |-> "addSourcemap", pc |-> "tokenize", data |-> Absent,
                settled |-> "pending", warning |-> "", copyFromSrc |-> copyFromSrc]
    /\ UNCHANGED <<fs, hist, notFn>>

AttachAt(pc) == call # Idle /\ call.fn = "addSourcemap" /\ call.pc = pc

\* await createIdentitySourcemap(src.replace(/\\/g, '/'))
AttachTokenize(io) ==
    /\ AttachAt("tokenize")
    /\ IF io \/ ~hist.ok
       THEN AttachCatch(IF io THEN "EIO" ELSE "SyntaxError")
       ELSE /\ call' = [call EXCEPT !.pc = "writeMap", !.data = IdentityMapOf(fs.src)]
            /\ fs' = fs
    /\ UNCHANGED <<hist, notFn>>

\* await writeFileAsync(mapFile, JSON.stringify(data))
AttachWriteMap(io) ==
    /\ AttachAt("writeMap")
    /\ IF io
       THEN AttachCatch("EIO")
       ELSE /\ fs' = [fs EXCEPT !.map = call.data]
            /\ call' = [call EXCEPT !.pc = "readFile", !.data = Absent]
    /\ UNCHANGED <<hist, notFn>>

\* await readFileAsync(copyFromSrc ? src : dest), then lines 314-326
AttachReadFile(io) ==
    /\ AttachAt("readFile")
    /\ IF io
       THEN AttachCatch("EIO")
       ELSE LET fileContent == IF call.copyFromSrc THEN fs.src ELSE fs.dest IN
            /\ call' = [call EXCEPT !.pc = "writeFile",
                           !.data = [fileContent |-> fileContent,
                                     updatedContent |-> UpdatedText(fileContent)]]
            /\ fs' = fs
    /\ UNCHANGED <<hist, notFn>>

\* await writeFileAsync(dest, updatedContent)
AttachWriteFile(io) ==
    /\ AttachAt("writeFile")
    /\ IF io
       THEN AttachCatch("EIO")
       ELSE /\ fs' = [fs EXCEPT !.dest = call.data.updatedContent]
            /\ call' = [call EXCEPT !.pc = "returned", !.settled = "resolved"]
    /\ UNCHANGED <<hist, notFn>>

\* the caller goes on after the call; it may call again
AttachReturn ==
    /\ AttachAt("returned")
    /\ call' = Idle
    /\ hist' = [hist EXCEPT !.calls = @ + 1,
                            !.written = IF call.warning = "" THEN @ + 1 ELSE @,
                            !.first = IF call.warning = "" /\ hist.written = 0
                                      THEN fs.dest ELSE @]
    /\ UNCHANGED <<fs, notFn>>

AttachNext ==
    \/ \E copyFromSrc \in BOOLEAN : addSourcemap(copyFromSrc)
    \/ \E io \in BOOLEAN : AttachTokenize(io)
    \/ \E io \in BOOLEAN : AttachWriteMap(io)
    \/ \E io \in BOOLEAN : AttachReadFile(io)
    \/ \E io \in BOOLEAN : AttachWriteFile(io)
    \/ AttachReturn

AttachSpec == AttachInit /\ [][AttachNext]_vars

\* ------------------------------------------------------------- express app
\* The two proxy middlewares of runServer.  A request path is the sequence
\* of its segments and whether it ends in a slash.
MaxSegments == 3   \* segments of a request path

HIDDEN_ADMIN_PORT == 18881
HIDDEN_BROWSER_SYNC_PORT == 18882

\* this.adapterName
AdapterName == "test"

Segments == {"adapter", AdapterName, "browser-sync", "x"}
UrlPath(segs, slash) == [segs |-> segs, slash |-> slash]
UrlPaths ==
    {UrlPath(segs, slash) :
        segs \in UNION {[1..n -> Segments] : n \in 0..MaxSegments}, slash \in BOOLEAN}
    \ {UrlPath(<<>>, FALSE)}

\* the path starts with the text prefix + '/'
StartsWithDir(path, prefix) ==
    /\ Len(path.segs) >= Len(prefix)
    /\ SubSeq(path.segs, 1, Len(prefix)) = prefix
    /\ Len(path.segs) > Len(prefix) \/ path.slash

\* a glob of a context: `<prefix>/**`, or its negation `!<prefix>/**`
Glob(negated, prefix) == [negated |-> negated, prefix |-> prefix]

\* `<prefix>/**` matches every path below the directory prefix
GlobMatches(glob, path) == StartsWithDir(path, glob.prefix)

\* matching a path against a list of globs: the path has to match one of the
\* globs that are not negated (if there is any) and none of the negated ones
MatchMultiGlob(context, path) ==
    LET positive == {g \in context : ~g.negated}
        negative == {g \in context : g.negated} IN
    /\ positive = {} \/ \E g \in positive : GlobMatches(g, path)
    /\ \A g \in negative : ~GlobMatches(g, path)

\* line 227: adminPattern without and with `!`
AdminPattern(negated) == Glob(negated, <<"adapter", AdapterName>>)

\* line 231: [adminPattern, '/browser-sync/**']
BrowserSyncContext == {AdminPattern(FALSE), Glob(FALSE, <<"browser-sync">>)}

\* AdminContext without the negation of '/browser-sync/**'
AdminContext_adminOnly == {AdminPattern(TRUE)}

\* line 240: [`!${adminPattern}`, '!/browser-sync/**']
AdminContext == {AdminPattern(TRUE), Glob(TRUE, <<"browser-sync">>)}

\* PathRewrite that leaves every path as it is
PathRewrite_none(path) == path

\* lines 228-229: pathRewrite['^/adapter/<adapterName>/'] = '/'
PathRewrite(path) ==
    IF StartsWithDir(path, <<"adapter", AdapterName>>)
    THEN UrlPath(SubSeq(path.segs, 3, Len(path.segs)),
                 path.slash \/ Len(path.segs) = 2)
    ELSE path

Request(path, stage) == [fn |-> "request", path |-> path, stage |-> stage]
Forward(route, target, original, path) ==
    [fn |-> "forward", route |-> route, target |-> target, original |-> original,
     path |-> path]

RouterInit ==
    /\ SyncOff
    /\ FnOff
    /\ ProcessOff
    /\ request = Idle
    /\ forwarded = Idle
    /\ upgradeListener = FALSE
    /\ upgraded = Idle

\* a request arrives and enters the first middleware
Receive(path) ==
    /\ request = Idle
    /\ request' = Request(path, 1)
    /\ forwarded' = Idle
    /\ UNCHANGED <<upgradeListener, upgraded, notRouter>>

\* lines 230-236: the browser-sync proxy forwards the request if its context
\* matches, and passes it on with next() if not
BrowserSyncProxy ==
    /\ request # Idle
    /\ request.stage = 1
    /\ IF MatchMultiGlob(BrowserSyncContext, request.path)
       THEN /\ forwarded' = Forward(1, HIDDEN_BROWSER_SYNC_PORT, request.path,
                                    PathRewrite(request.path))
            /\ request' = Idle
       ELSE /\ request' = Request(request.path, 2)
            /\ forwarded' = forwarded
    /\ UNCHANGED <<upgradeListener, upgraded, notRouter>>

\* lines 239-244: the admin proxy forwards the request if its context
\* matches; if not, no middleware is left and express answers 404.
\* With `ws: true` the middleware of http-proxy-middleware takes the server
\* from the request it is handling and subscribes to its 'upgrade' event:
\* the listener exists once a request has reached this middleware.
AdminProxy ==
    /\ request # Idle
    /\ request.stage = 2
    /\ forwarded' = IF MatchMultiGlob(AdminContext, request.path)
                    THEN Forward(2, HIDDEN_ADMIN_PORT, request.path, request.path)
                    ELSE Forward(0, 0, request.path, request.path)
    /\ request' = Idle
    /\ upgradeListener' = TRUE
    /\ UNCHANGED <<upgraded, notRouter>>

\* the paths WebSocket clients connect to: the socket of admin, the socket
\* of browser-sync and a socket below the adapter's admin directory
UpgradePaths ==
    {UrlPath(<<"x">>, TRUE), UrlPath(<<"browser-sync", "x">>, FALSE),
     UrlPath(<<"adapter", AdapterName, "x">>, FALSE)}

\* the server emits 'upgrade' for a WebSocket handshake: express is not
\* involved.  Only the admin proxy (ws: true, line 242; commented out at
\* 233) handles the event, once it has subscribed, and only for a path its
\* context matches; otherwise nobody forwards the handshake.
Upgrade(path) ==
    /\ request = Idle
    /\ path \in UpgradePaths
    /\ upgraded' = IF upgradeListener /\ MatchMultiGlob(AdminContext, path)
                   THEN Forward(2, HIDDEN_ADMIN_PORT, path, path)
                   ELSE Forward(0, 0, path, path)
    /\ UNCHANGED <<request, forwarded, upgradeListener, notRouter>>

RouterNext ==
    \/ \E path \in UrlPaths : Receive(path)
    \/ BrowserSyncProxy
    \/ AdminProxy
    \/ \E path \in UpgradePaths : Upgrade(path)

RouterSpec == RouterInit /\ [][RouterNext]_vars

\* -------------------------------------------------------- devserver process
\* run() from the call of runServer on: the controller, the helper processes,
\* the http server of the proxy, the adapter debugger or nodemon, and the
\* handlers of SIGINT and of the exit of this process.
MaxSignals == 2    \* SIGINT signals the process receives

Children == {"controller", "parcel", "tsc", "debugger"}

\* the children started with spawnAndAwaitOutput: their output is awaited
\* and a SIGINT handler is registered for each (778-781)
Awaited == {"parcel", "tsc"}

\* the await of run() in which the output of child c is awaited
AwaitOf(c) == IF c = "parcel" THEN "startParcel" ELSE "startTscWatch"

NotSpawned == [state |-> "none", alive |-> FALSE, kills |-> 0]

\* spawn(): cp.spawn(...), `let alive = true`
Spawned(ch, c) == [ch EXCEPT ![c] = [state |-> "running", alive |-> TRUE, kills |-> 0]]

\* proc.kill()
Kill(ch, c) == [ch EXCEPT ![c].kills = @ + 1]

Last(event, child, code) == [event |-> event, child |-> child, code |-> code]

\* the exit status of a process that called process.exit(code)
ExitStatus(code) == code % 256

\* ExitHook that kills every child that was started
ExitHook_killsAll(ch) ==
    [c \in Children |-> IF ch[c].state # "none" THEN Kill(ch, c)[c] ELSE ch[c]]

\* line 753: process.on('exit', () => alive && proc.kill()), registered by
\* every spawn()
ExitHook(ch) ==
    [c \in Children |-> IF ch[c].state # "none" /\ ch[c].alive THEN Kill(ch, c)[c] ELSE ch[c]]

\* process.exit(code), or the end of the process after an uncaught
\* exception (code 1), the children being ch: nothing but the 'exit'
\* listeners runs from here on
Exit(code, ch) ==
    /\ devserver' = [state |-> "exiting", code |-> ExitStatus(code)]
    /\ children' = ch

Alive == devserver.state = "running"

\* the process emits 'exit': the listeners registered by spawn() run, and
\* the process ends
ProcessExit ==
    /\ devserver.state = "exiting"
    /\ devserver' = [devserver EXCEPT !.state = "exited"]
    /\ children' = ExitHook(children)
    /\ UNCHANGED <<argv, runPc, server, nodemon, announced, signals, last, notProcess>>

ProcessInit ==
    /\ SyncOff
    /\ FnOff
    /\ RouterOff
    /\ \E runCommand \in {"debug", "watch"}, parcel \in BOOLEAN, tsc \in BOOLEAN :
         argv = [runCommand |-> runCommand, parcel |-> parcel, tsc |-> tsc]
    /\ runPc = "runServer"
    /\ server = [state |-> "uninitialized", closeRequested |-> FALSE, listened |-> FALSE]
    /\ children = [c \in Children |-> NotSpawned]
    /\ nodemon = "none"
    /\ devserver = [state |-> "running", code |-> 0]
    /\ announced = FALSE
    /\ signals = 0
    /\ last = Last("none", "", 0)

\* lines 247-253: app.listen(adminPort) and the await of its first event
Listen ==
    /\ runPc' = "listen"
    /\ server' = [server EXCEPT !.state = "binding"]

\* runServer up to its first await: the controller is spawned (202-207), the
\* SIGINT handler is registered (209-213), parcel is started if the adapter
\* has a watch:parcel script (216-221); without parcel the function goes on
\* to app.listen
StartServer ==
    /\ Alive
    /\ runPc = "runServer"
    /\ IF argv.parcel
       THEN /\ children' = Spawned(Spawned(children, "controller"), "parcel")
            /\ runPc' = "startParcel"
            /\ server' = server
       ELSE /\ children' = Spawned(children, "controller")
            /\ Listen
    /\ last' = Last("runServer", "", 0)
    /\ UNCHANGED <<argv, nodemon, devserver, announced, signals, notProcess>>

\* the child c writes the awaited message to stdout (resolve) or anything
\* to stderr (reject); only the first of these settles the promise of
\* spawnAndAwaitOutput.  After parcel comes app.listen, after tsc comes
\* startFileSync.
ChildOutput(c, stream) ==
    /\ Alive
    /\ c \in Awaited
    /\ children[c].state = "running"
    /\ last' = Last(stream, c, 0)
    /\ IF runPc # AwaitOf(c)
       THEN UNCHANGED <<runPc, server, children, devserver>>
       ELSE IF stream = "stderr"
       THEN Exit(-1, children) /\ UNCHANGED <<runPc, server>>
       ELSE /\ IF c = "parcel" THEN Listen
               ELSE runPc' = "startFileSync" /\ server' = server
            /\ UNCHANGED <<children, devserver>>
    /\ UNCHANGED <<argv, nodemon, announced, signals, notProcess>>

\* ListenSettled for which every event of the server resolves the promise
ListenSettled_any(event) == "resolved"

\* lines 248-252: how the event settles the promise runServer awaits
ListenSettled(event) == IF event = "listening" THEN "resolved" ELSE "rejected"

\* an event of the server: runServer goes on if it is waiting for it.
\* Resolved: the announcement (255-260), then the adapter debugger is
\* spawned (262-263, 428-438) or startAdapterWatch is entered (264-265,
\* 441-448).  Rejected: run() rejects and main calls process.exit(-1).
ServerEvent(event) ==
    IF runPc # "listen"
    THEN UNCHANGED <<runPc, children, devserver, announced>>
    ELSE IF ListenSettled(event) = "rejected"
    THEN Exit(-1, children) /\ UNCHANGED <<runPc, announced>>
    ELSE /\ announced' = TRUE
         /\ devserver' = devserver
         /\ IF argv.runCommand = "debug"
            THEN children' = Spawned(children, "debugger") /\ runPc' = "serving"
            ELSE IF argv.tsc
            THEN children' = Spawned(children, "tsc") /\ runPc' = "startTscWatch"
            ELSE children' = children /\ runPc' = "startFileSync"

\* server.on('listening', resolve)
ServerListening ==
    /\ Alive
    /\ server.state = "binding"
    /\ server' = [server EXCEPT !.state = "listening", !.listened = TRUE]
    /\ ServerEvent("listening")
    /\ last' = Last("listening", "", 0)
    /\ UNCHANGED <<argv, nodemon, signals, notProcess>>

\* server.on('error', reject): the port cannot be bound, or an error of the
\* listening server
ServerError ==
    /\ Alive
    /\ server.state \in {"binding", "listening"}
    /\ server' = [server EXCEPT !.state = IF @ = "binding" THEN "failed" ELSE @]
    /\ ServerEvent("error")
    /\ last' = Last("error", "", 0)
    /\ UNCHANGED <<argv, nodemon, signals, notProcess>>

\* server.on('close', reject): the server has closed, after server.close()
\* or without it
ServerClose ==
    /\ Alive
    /\ server.state \in {"listening", "closing"}
    /\ server' = [server EXCEPT !.state = "closed"]
    /\ ServerEvent("close")
    /\ last' = Last("close", "", 0)
    /\ UNCHANGED <<argv, nodemon, signals, notProcess>>

\* FileSyncSettles in which startFileSync is not awaited: nodemon is started
\* whatever the watcher reports
FileSyncSettles_notAwaited(ok) ==
    /\ Alive
    /\ runPc = "startFileSync"
    /\ nodemon' = "running"
    /\ runPc' = "serving"
    /\ last' = Last(IF ok THEN "ready" ELSE "watcherError", "", 0)
    /\ UNCHANGED <<argv, server, children, devserver, announced, signals, notProcess>>

\* startAdapterWatch: the promise of startFileSync settles; when it
\* resolves, nodemon is started (454, 527-587)
FileSyncSettles(ok) ==
    /\ Alive
    /\ runPc = "startFileSync"
    /\ IF ok
       THEN /\ nodemon' = "running"
            /\ runPc' = "serving"
            /\ UNCHANGED <<children, devserver>>
       ELSE /\ Exit(-1, children)
            /\ UNCHANGED <<nodemon, runPc>>
    /\ last' = Last(IF ok THEN "ready" ELSE "watcherError", "", 0)
    /\ UNCHANGED <<argv, server, announced, signals, notProcess>>

\* lines 583-586: nodemon.on('quit')
NodemonQuit ==
    /\ Alive
    /\ nodemon = "running"
    /\ nodemon' = "quit"
    /\ Exit(-2, children)
    /\ last' = Last("quit", "nodemon", 0)
    /\ UNCHANGED <<argv, runPc, server, announced, signals, notProcess>>

\* OnChildExit that ends this process with the code of the child
OnChildExit_sameCode(c, code) == code

\* lines 204-207 and 435-438: proc.on('exit', (code) => ... process.exit(-1))
OnChildExit(c, code) == -1

\* ChildExit without the exit handlers of runServer and startAdapterDebug
ChildExit_unobserved(c, code) ==
    /\ Alive
    /\ children[c].state = "running"
    /\ children' = [children EXCEPT ![c].state = "exited", ![c].alive = FALSE]
    /\ last' = Last("exit", c, code)
    /\ UNCHANGED <<argv, runPc, server, nodemon, devserver, announced, signals, notProcess>>

\* the child c exits with code: `alive = false` (752); the exit of the
\* controller or of the adapter debugger ends this process
ChildExit(c, code) ==
    /\ Alive
    /\ children[c].state = "running"
    /\ LET ch == [children EXCEPT ![c].state = "exited", ![c].alive = FALSE] IN
       IF c \in {"controller", "debugger"}
       THEN Exit(OnChildExit(c, code), ch)
       ELSE children' = ch /\ devserver' = devserver
    /\ last' = Last("exit", c, code)
    /\ UNCHANGED <<argv, runPc, server, nodemon, announced, signals, notProcess>>

\* lines 778-781: the SIGINT handlers of spawnAndAwaitOutput call
\* proc.kill(); the handlers of runServer (209-213) and of startNodemon
\* (533-535) kill nothing
SigintKills(ch) ==
    [c \in Children |-> IF c \in Awaited /\ ch[c].state # "none" THEN Kill(ch, c)[c] ELSE ch[c]]

\* the process receives SIGINT: its handlers run in the order they were
\* registered.  The first is that of runServer, which calls server.close();
\* `server` is a const initialized at 247, so before that the handler throws
\* a ReferenceError, which nothing catches.  The handlers of
\* spawnAndAwaitOutput kill their child and reject their promise.
Sigint ==
    /\ Alive
    /\ runPc # "runServer"
    /\ signals < MaxSignals
    /\ signals' = signals + 1
    /\ last' = Last("SIGINT", "", 0)
    /\ IF server.state = "uninitialized"
       THEN /\ Exit(1, children)
            /\ server' = server
       ELSE /\ server' = [server EXCEPT !.closeRequested = TRUE,
                             !.state = IF @ \in {"binding", "listening"} THEN "closing" ELSE @]
            /\ IF runPc = "startTscWatch"
               THEN Exit(-1, SigintKills(children))
               ELSE children' = SigintKills(children) /\ devserver' = devserver
    /\ UNCHANGED <<argv, runPc, nodemon, announced, notProcess>>

ProcessNext ==
    \/ StartServer
    \/ \E c \in Awaited, stream \in {"stdout", "stderr"} : ChildOutput(c, stream)
    \/ ServerListening
    \/ ServerError
    \/ ServerClose
    \/ \E ok \in BOOLEAN : FileSyncSettles(ok)
    \/ NodemonQuit
    \/ \E c \in Children, code \in {0, 1} : ChildExit(c, code)
    \/ Sigint
    \/ ProcessExit

ProcessSpec == ProcessInit /\ [][ProcessNext]_vars

\* process.exit() emits 'exit' and ends the process without returning to the
\* event loop: a process that is exiting does exit
LiveSpec == ProcessSpec /\ WF_vars(ProcessExit)

\* ---------------------------------------------------------- copySourcemaps
\* `dev-server debug`: runServer awaits copySourcemaps (199-201) before it
\* spawns the controller (202).  The working tree does not change meanwhile.
\* the files of extension ext that findFiles finds in the working tree
findFiles(ext) ==
    {p \in Paths : src[p] # Absent /\ (EndsWithMap(p) <=> ext = "map")}

\* the members of the set S in some order
RECURSIVE SeqOf(_)
SeqOf(S) ==
    IF S = {} THEN <<>>
    ELSE LET x == CHOOSE x \in S : TRUE IN <<x>> \o SeqOf(S \ {x})

\* CopyBranch that never looks for source maps
CopyBranch_attachAlways(sourcemaps) == "attach"

\* line 273: if (sourcemaps.length === 0)
CopyBranch(sourcemaps) == IF sourcemaps = {} THEN "attach" ELSE "patch"

\* lines 279-285: addSourcemap(src, dest, false) is called for every .js
\* file found; each call runs up to its first await
AttachCalls(jsFiles) ==
    [i \in 1..Cardinality(jsFiles) |->
        [Task(SeqOf(jsFiles)[i], "attach", "tokenize", Absent) EXCEPT !.copyFromSrc = FALSE]]

\* lines 291-297: patchSourcemap(src, dest) is called for every map found;
\* a call reads and checks the map at once (342-346) and is left at its
\* write, or has logged a warning and returned
PatchCalls(sourcemaps) ==
    LET good == {p \in sourcemaps : src[p].version = 3} IN
    [i \in 1..Cardinality(good) |->
        Task(SeqOf(good)[i], "patch", "writePatched", patchedData(src[SeqOf(good)[i]]))]

\* the state in which run() of `dev-server debug` calls runServer
CopyInit ==
    /\ \E b \in {Absent, Code(1, TRUE, "none"), Code(2, FALSE, "none")},
          m \in {Absent} \cup SrcMaps, bInstalled \in BOOLEAN, mInstalled \in BOOLEAN :
         /\ src = [p \in Paths |->
                     IF p = JsB THEN b ELSE IF p = MapA THEN m ELSE Code(1, TRUE, "none")]
         \* the installation step copied the files that are part of the package
         /\ dest = [q \in DestPaths |->
                     IF q = JsA THEN Code(1, TRUE, "none")
                     ELSE IF q = JsB /\ bInstalled THEN b
                     ELSE IF q = MapA /\ mInstalled THEN m
                     ELSE Absent]
    /\ ready = FALSE
    /\ ignoreFiles = {}
    /\ tasks = <<>>
    /\ watched = {}
    /\ pending = {}
    /\ edits = 0
    /\ running = TRUE
    /\ ev = NoEvent
    /\ warned = NoWarning
    /\ latest = [p \in Paths |-> NoSync]
    /\ promise = "pending"
    /\ FnOff
    /\ RouterOff
    /\ argv = [runCommand |-> "debug", parcel |-> FALSE, tsc |-> FALSE]
    /\ runPc = "copySourcemaps"
    /\ server = [state |-> "uninitialized", closeRequested |-> FALSE, listened |-> FALSE]
    /\ children = [c \in Children |-> NotSpawned]
    /\ nodemon = "none"
    /\ devserver = [state |-> "running", code |-> 0]
    /\ announced = FALSE
    /\ signals = 0
    /\ last = Last("none", "", 0)

\* copySourcemaps from the return of findFiles on.  Without source maps
\* the addSourcemap calls are awaited (279-285).  With source maps the
\* patchSourcemap calls are not awaited (295): the promises of Promise.all
\* are resolved at once, copySourcemaps returns and runServer goes on to
\* spawn the controller (202) before any write has completed.
copySourcemaps ==
    /\ runPc = "copySourcemaps"
    /\ LET sourcemaps == findFiles("map") IN
       IF CopyBranch(sourcemaps) = "attach"
       THEN /\ tasks' = AttachCalls(findFiles("js"))
            /\ runPc' = "copying"
            /\ UNCHANGED <<children, warned, latest>>
       ELSE /\ tasks' = PatchCalls(sourcemaps)
            /\ \/ /\ \A p \in sourcemaps : src[p].version = 3
                  /\ UNCHANGED <<warned, latest>>
               \/ \E p \in sourcemaps :
                     /\ src[p].version # 3
                     /\ warned' = Warn("patchSourcemap", p, "Unsupported sourcemap version")
                     /\ latest' = [q \in Paths |->
                                     IF q \in sourcemaps /\ src[q].version # 3
                                     THEN Outcome("fail", "readJson", "patch", Absent)
                                     ELSE latest[q]]
            /\ runPc' = "runServer"
            /\ children' = Spawned(children, "controller")
    /\ UNCHANGED <<src, dest, ready, ignoreFiles, watched, pending, edits, running, ev,
                   promise, argv, server, nodemon, devserver, announced, signals, last,
                   fnVars, routerVars>>

\* every addSourcemap call has returned: Promise.all resolves (279-285),
\* copySourcemaps returns and runServer spawns the controller (202)
CopyResolved ==
    /\ runPc = "copying"
    /\ tasks = <<>>
    /\ runPc' = "runServer"
    /\ children' = Spawned(children, "controller")
    /\ UNCHANGED <<syncVars, argv, server, nodemon, devserver, announced, signals, last,
                   fnVars, routerVars>>

CopyNext ==
    \/ copySourcemaps
    \/ CopyResolved
    \/ \E i \in 1..MaxTasks, io \in BOOLEAN : Tokenize(i, io)
    \/ \E i \in 1..MaxTasks, io \in BOOLEAN : WriteMap(i, io)
    \/ \E i \in 1..MaxTasks, io \in BOOLEAN : ReadFile(i, io)
    \/ \E i \in 1..MaxTasks, io \in BOOLEAN : WriteFile(i, io)
    \/ \E i \in 1..MaxTasks, io \in BOOLEAN : WritePatched(i, io)

CopySpec == CopyInit /\ [][CopyNext]_vars

\* ---------------------------------------------------------------- claims
\* a watcher callback ran in this step
EventStep == ev'.tick # ev.tick

\* a warning was logged in this step
WarnStep == warned'.tick # warned.tick

CodePaths == {p \in Paths : ~EndsWithMap(p)}

\* c and d are the same JavaScript text, the reference comment aside
SameText(c, d) ==
    c.type = "code" /\ d.type = "code" /\ c.v = d.v /\ c.ok = d.ok

\* C1: per-path ordering - once every change of a code file has been
\* reported, no sync of the file is in flight and the sync started last for
\* it succeeded, the destination file is what that last sync wrote (not the
\* older content that an earlier sync of the same path read).
C1_PerPathOrder ==
    \A p \in CodePaths :
        (p \notin pending /\ ~InFlight(p) /\ latest[p].res = "ok")
        => SameText(dest[p], latest[p].out)

\* C2: a change event after ready for a code file that the initial scan put
\* in the exclusion set dispatches syncFile.
C2_ExcludedFileSyncedOnChange ==
    [][(EventStep /\ ev'.kind = "change" /\ ready
          /\ ev'.path \in CodePaths /\ ev'.path \in ignoreFiles)
       => ev'.dispatched]_vars

\* C3 (as claimed): an add or change event dispatches syncFile exactly when
\* ready is set and the path is not in the exclusion set.
C3_DispatchIffReadyAndNotExcluded ==
    [][(EventStep /\ ev'.kind \in {"add", "change"})
       => (ev'.dispatched <=> (ready /\ ev'.path \notin ignoreFiles))]_vars

\* C3 (amended): an add event dispatches syncFile exactly when ready is set,
\* whether or not the path is excluded; a change event dispatches syncFile
\* exactly when the path is not in the exclusion set, whether or not ready
\* is set.
C3_DispatchRule ==
    [][(EventStep /\ ev'.kind \in {"add", "change"})
       => (ev'.dispatched <=>
             IF ev'.kind = "add" THEN ready ELSE ev'.path \notin ignoreFiles)]_vars

\* a change event for a file that is not excluded started a sync before ready
C3_Witness ==
    /\ ev.kind = "change" /\ ev.dispatched
    /\ ~ready /\ ev.path \notin ignoreFiles /\ InFlight(ev.path)

\* C4: an add event before ready for a path that exists in the destination
\* writes nothing to the destination, starts no sync and does not add the
\* path to the exclusion set.
C4_AddOfSeededFileIsNoop ==
    [][(EventStep /\ ev'.kind = "add" /\ ~ready /\ dest[ev'.path] # Absent)
       => (dest' = dest /\ ignoreFiles' = ignoreFiles /\ tasks' = tasks
             /\ ~ev'.dispatched)]_vars

\* the add event of the seeded a.js was handled before ready
C4_Witness ==
    /\ ev.kind = "add" /\ ev.path = JsA /\ ~ready
    /\ dest[JsA] # Absent /\ JsA \notin ignoreFiles /\ tasks = <<>>

\* C5: an unlink event for a code file whose mirrored copy exists, when no
\* deletion fails, removes the file and its .map from the destination and
\* nothing else; when the .map is absent and the file is deleted, nothing
\* else is deleted and no error is raised.
C5_UnlinkRemovesFileAndMap ==
    [][(EventStep /\ ev'.kind = "unlink" /\ ev'.path \in CodePaths
          /\ dest[ev'.path] # Absent)
       => LET p == ev'.path IN
          /\ ~ev'.raised =>
                dest' = [dest EXCEPT ![p] = Absent, ![MapOf(p)] = Absent]
          /\ (dest[MapOf(p)] = Absent /\ dest'[p] = Absent) =>
                (~ev'.raised /\ dest' = [dest EXCEPT ![p] = Absent])]_vars

\* a.js and the a.js.map seeded with it are gone after the unlink of a.js
\* (the deletion of a.js is the only edit so far)
C5_Witness ==
    /\ ev.kind = "unlink" /\ ev.path = JsA /\ ~ev.raised
    /\ edits = 1 /\ src[MapA] # Absent
    /\ dest[JsA] = Absent /\ dest[MapA] = Absent

\* C6: when the deletion of the mirrored file fails on an unlink event (the
\* file is missing in the destination or unlinkSync fails), the exception
\* leaves the callback and the .map in the destination is not deleted.
C6_FailedUnlinkRaises ==
    [][(EventStep /\ ev'.kind = "unlink"
          /\ (dest[ev'.path] = Absent \/ dest'[ev'.path] # Absent))
       => (ev'.raised /\ dest' = dest)]_vars

\* the unlink of a mirrored file failed and its .map is still there
C6_Witness ==
    /\ ev.kind = "unlink" /\ ev.raised
    /\ dest[ev.path] # Absent /\ dest[MapOf(ev.path)] # Absent

\* C7: a change event after ready for a previously excluded file that was
\* unlinked, re-created after ready and mirrored by that add event
\* dispatches syncFile.
C7_RecreatedFileSyncedOnChange ==
    [][(EventStep /\ ev'.kind = "change" /\ ready
          /\ ev'.path \in ignoreFiles
          /\ ~InFlight(ev'.path) /\ latest[ev'.path].res = "ok")
       => ev'.dispatched]_vars

\* the branch of syncFile for p, read off the working tree
C8_Branch(p) ==
    IF EndsWithMap(p) THEN "patch"
    ELSE IF MapOf(p) \in Paths /\ src[MapOf(p)] # Absent THEN "copy"
    ELSE "attach"

\* the sync call tasks[i] takes this step
C8_Acts(i) ==
    /\ ~EventStep
    /\ i \in 1..Len(tasks)
    /\ \/ tasks' = RemoveAt(tasks, i)
       \/ Len(tasks') = Len(tasks) /\ tasks'[i] # tasks[i]

\* what a sync call t may write: file q of the destination with content c
C8_MayWrite(t, q, c) ==
    CASE t.kind = "patch"  -> q = t.path /\ c.type = "map" /\ c.sourceRoot = RootDir
                                /\ c.mappings.kind = "build"
      [] t.kind = "copy"   -> q = t.path /\ c = src[t.path]
      [] t.kind = "attach" -> \/ q = MapOf(t.path) /\ c.type = "map"
                                   /\ c.mappings.kind = "identity"
                                   /\ c.mappings.source = t.path
                              \/ q = t.path /\ c.type = "code" /\ c.ref = "own"

\* C8: syncFile(path) takes exactly one of three branches, chosen when it is
\* called: repair of the map for a map file, attachMap (content and
\* synthesized map) when the working tree has no sibling map, a plain copy
\* otherwise; a call only writes what its branch writes, so a plain copy
\* writes the bytes of the source file and no map.
C8_SyncFileBranches ==
    [][/\ (EventStep /\ ev'.dispatched /\ Len(tasks') = Len(tasks) + 1) =>
            LET t == tasks'[Len(tasks')] IN
            t.path = ev'.path /\ t.kind = C8_Branch(ev'.path)
       /\ (~EventStep /\ dest' # dest) =>
            \E i \in 1..Len(tasks) :
                /\ C8_Acts(i)
                /\ \A q \in DestPaths :
                      dest'[q] # dest[q] => C8_MayWrite(tasks[i], q, dest'[q])]_vars

\* a plain copy of the edited a.js has completed while a.js.map exists in
\* the working tree; the copy has no reference comment added
C8_Witness ==
    /\ latest[JsA].kind = "copy" /\ latest[JsA].res = "ok"
    /\ src[MapA] # Absent
    /\ dest[JsA] = src[JsA] /\ dest[JsA].v = 2 /\ dest[JsA].ref = "none"

\* C9: when the synthesis or the write of the map failed in the sync of a
\* code file started last, then once no sync of the file is in flight (and
\* the file was not edited since) the destination holds the source content.
C9_ContentSyncedDespiteMapFailure ==
    \A p \in CodePaths :
        (/\ ~InFlight(p)
         /\ latest[p].res = "fail" /\ latest[p].kind = "attach"
         /\ latest[p].at \in {"tokenize", "writeMap"}
         /\ p \notin pending /\ src[p] # Absent)
        => SameText(dest[p], src[p])

\* C10: a failed sync is contained - the step that logs the warning leaves
\* the process running, leaves ready, the exclusion set and the watcher's
\* file set as they are, writes nothing to the destination, and leaves the
\* other syncs in flight untouched.
C10_SyncFailureContained ==
    [][WarnStep =>
        /\ running /\ running'
        /\ ready' = ready
        /\ ignoreFiles' = ignoreFiles
        /\ dest' = dest
        /\ IF EventStep
           THEN /\ ~ev'.raised
                /\ tasks' = Superseded(ev'.path)
           ELSE /\ watched' = watched
                /\ \E i \in 1..Len(tasks) : tasks' = RemoveAt(tasks, i)]_vars

\* after the sync of a.js.map failed on the version of the map, a later
\* event for another file started a sync, which completed
C10_Witness ==
    /\ warned.error = "Unsupported sourcemap version"
    /\ running /\ ready
    /\ ev.path # warned.path /\ ev.dispatched
    /\ latest[ev.path].res = "ok"

\* a call of patchSourcemap has returned
PatchReturned == call # Idle /\ call.fn = "patchSourcemap" /\ call.pc = "returned"

\* C11: for a source map whose version is not 3, patchSourcemap performs no
\* write to the destination: no step of the call changes the destination map.
C11_NoWriteForUnsupportedVersion ==
    [][(fs.src # Absent /\ fs.src.version # 3) => fs'.dest = fs.dest]_vars

\* a second call has given up on a version 2 map, the destination map being
\* the one that was installed
C11_Witness ==
    /\ PatchReturned
    /\ call.warning = "Unsupported sourcemap version"
    /\ hist.calls = 1
    /\ fs.src.version = 2
    /\ fs.dest = fs.src

\* C12: for a map with version # 3 the caller of patchSourcemap observes a
\* failure of the call: the promise it was given is rejected.
C12_UnsupportedVersionPropagates ==
    (PatchReturned /\ fs.src # Absent /\ fs.src.version # 3) => call.settled = "rejected"

\* C13: for a version 3 map the sourceRoot written is the directory of the
\* source map with forward slashes, whatever the sourceRoot was before, and
\* a second successful call leaves the destination map the first one wrote.
C13_SourceRootIdempotent ==
    (PatchReturned /\ call.warning = "") =>
        /\ fs.src.version = 3
        /\ fs.dest.sourceRoot.sep = "/"
        /\ fs.dest.sourceRoot.segs = SubSeq(hist.src.segs, 1, Len(hist.src.segs) - 1)
        /\ fs.dest.version = fs.src.version
        /\ fs.dest.mappings = fs.src.mappings
        /\ hist.written >= 1 => fs.dest = hist.first

\* the second call has written the map of build\a.js.map, whose sourceRoot
\* was ../src
C13_Witness ==
    /\ PatchReturned
    /\ call.warning = ""
    /\ hist.written = 1
    /\ fs.src.sourceRoot = FilePath("/", <<"..", "src">>)
    /\ hist.src = FilePath("\\", <<"work", "build", "a.js.map">>)

\* C14: patchSourcemap writes the destination map and nothing else: the
\* source map is never changed, and the step that completes the call without
\* a warning has written the patched document to the destination.
C14_PatchWritesOnlyDest ==
    [][/\ fs'.src = fs.src
       /\ (call' # call /\ call' # Idle /\ call'.pc = "returned" /\ call'.warning = "")
            => (fs'.dest = call.data /\ fs'.dest # Absent)]_vars

\* the call has written a destination map that differs from the source map,
\* which still has no sourceRoot
C14_Witness ==
    /\ PatchReturned
    /\ call.warning = ""
    /\ fs.src.sourceRoot = NoRoot
    /\ fs.dest # fs.src
    /\ fs.dest.sourceRoot # NoRoot

\* C15: createIdentitySourcemap emits one mapping per token before the
\* end-of-stream token, in order: its generated and its original position are
\* the start of the token and its source is the file; there are as many
\* mappings as tokens.
C15_OneIdentityMappingPerToken ==
    (call # Idle /\ call.fn = "createIdentitySourcemap" /\ call.settled = "resolved") =>
        LET m == call.data.mappings
            t == hist.tokens IN
        /\ Len(m) = Len(t)
        /\ \A k \in 1..Len(t) :
             /\ m[k].generated = t[k].loc.start
             /\ m[k].original = t[k].loc.start
             /\ m[k].source = hist.filename

\* the map of a file of three tokens on two lines has been produced
C15_Witness ==
    /\ call # Idle
    /\ call.fn = "createIdentitySourcemap"
    /\ call.settled = "resolved"
    /\ Len(hist.tokens) = 3
    /\ hist.tokens[1].loc.start.line # hist.tokens[3].loc.start.line
    /\ Len(call.data.mappings) = 3

\* a call of addSourcemap has written the file and returned
AttachDone == AttachAt("returned") /\ call.warning = ""

\* C16: addSourcemap leaves one reference comment: a content that has the
\* comment already gets no second one, so the second call that completes
\* leaves the destination file as the first one wrote it.
C16_AttachIdempotent ==
    (AttachDone /\ hist.written >= 1) => fs.dest = hist.first

\* a line terminator pair CR LF occurs in the text
C17_UsesCRLF(text) ==
    \E k \in 1..(Len(text) - 1) : text[k] = "CR" /\ text[k + 1] = "LF"

\* C17: when addSourcemap appends the reference comment, the content is
\* followed by CR LF if it does not end in a line feed and contains CR LF, by
\* LF if it does not end in a line feed and contains no CR LF, and by nothing
\* if it ends in a line feed; then comes the comment.
C17_AppendKeepsLineEnding ==
    (AttachAt("writeFile") /\ Len(call.data.updatedContent) > Len(call.data.fileContent)) =>
        LET c == call.data.fileContent
            u == call.data.updatedContent
            between == SubSeq(u, Len(c) + 1, Len(u) - 2) IN
        /\ SubSeq(u, 1, Len(c)) = c
        /\ SubSeq(u, Len(u) - 1, Len(u)) = <<"M", "F">>
        /\ between = IF Len(c) > 0 /\ c[Len(c)] = "LF" THEN <<>>
                     ELSE IF C17_UsesCRLF(c) THEN <<"CR", "LF">>
                     ELSE <<"LF">>

\* the comment is about to be written after a last line without newline of
\* a file with CR LF line endings
C17_Witness ==
    /\ AttachAt("writeFile")
    /\ call.data.fileContent = <<"CR", "LF", "x">>
    /\ call.data.updatedContent = <<"CR", "LF", "x", "CR", "LF", "M", "F">>

MapPaths == {p \in Paths : EndsWithMap(p)}

\* C18: a map file is never excluded and not copied during the initial
\* scan: an add event for it before ready changes neither the destination nor
\* the calls in flight nor ignoreFiles; a change event for a version 3 map
\* after ready starts a patchSourcemap call that holds the map with
\* sourceRoot set to the directory of the source map, and when the call made
\* last for the map completes its write, the destination map is that document.
C18_MapFilesNeverExcluded ==
    [][/\ \A p \in MapPaths : p \notin ignoreFiles'
       /\ (EventStep /\ ev'.kind = "add" /\ ev'.path \in MapPaths /\ ~ready) =>
             (dest' = dest /\ tasks' = tasks /\ ignoreFiles' = ignoreFiles)
       /\ (EventStep /\ ev'.kind = "change" /\ ev'.path \in MapPaths /\ ready
             /\ src[ev'.path].version = 3) =>
             /\ ev'.dispatched
             /\ Len(tasks') = Len(tasks) + 1
             /\ LET t == tasks'[Len(tasks')] IN
                /\ t.path = ev'.path
                /\ t.kind = "patch"
                /\ t.data.sourceRoot = RootDir
                /\ t.data.mappings = src[ev'.path].mappings
       /\ \A p \in MapPaths :
             (latest'[p] # latest[p] /\ latest'[p].res = "ok") =>
                 /\ latest'[p].kind = "patch"
                 /\ dest'[p] = latest'[p].out
                 /\ dest'[p].sourceRoot = RootDir]_vars

\* the add event of the initial scan for a map that is not in the
\* destination: it is not copied and not excluded
C18_Witness ==
    /\ ev.kind = "add"
    /\ ev.path = MapA
    /\ ~ready
    /\ dest[MapA] = Absent
    /\ MapA \notin ignoreFiles

\* the watcher reported an error in this step
ErrorStep == EventStep /\ ev'.kind = "error"

\* C19: the promise of startFileSync settles at most once; it becomes
\* resolved exactly in the step in which ready becomes true, it becomes
\* rejected exactly in a step in which the watcher reports an error before
\* ready, and ready is true whenever it is resolved.
C19_PromiseSettlesOnce ==
    [][/\ promise # "pending" => promise' = promise
       /\ (promise = "pending" /\ promise' = "resolved") <=> (~ready /\ ready')
       /\ (promise = "pending" /\ promise' = "rejected") <=> (ErrorStep /\ ~ready)
       /\ promise' = "resolved" => ready'
       /\ promise' = "rejected" => ~ready']_vars

\* the watcher reported an error after ready: the promise stays resolved
C19_Witness ==
    /\ promise = "resolved"
    /\ ready
    /\ ev.kind = "error"
    /\ running

\* the path is under /adapter/<adapterName>/ or under /browser-sync/
C20_ForBrowserSync(path) ==
    LET n == Len(path.segs) IN
    \/ /\ n >= 2
       /\ path.segs[1] = "adapter"
       /\ path.segs[2] = AdapterName
       /\ n > 2 \/ path.slash
    \/ /\ n >= 1
       /\ path.segs[1] = "browser-sync"
       /\ n > 1 \/ path.slash

\* C20: every request path matches exactly one of the two routes: the first
\* if and only if it is under /adapter/<adapterName>/ or under
\* /browser-sync/, the second if and only if it is under neither; a request
\* is forwarded to the origin of the route it matches, never to none.
C20_RoutesPartitionPaths ==
    /\ request # Idle =>
         /\ MatchMultiGlob(BrowserSyncContext, request.path)
               <=> C20_ForBrowserSync(request.path)
         /\ MatchMultiGlob(AdminContext, request.path)
               <=> ~C20_ForBrowserSync(request.path)
    /\ forwarded # Idle =>
         /\ forwarded.route = (IF C20_ForBrowserSync(forwarded.original) THEN 1 ELSE 2)
         /\ forwarded.target = (IF C20_ForBrowserSync(forwarded.original)
                                THEN 18882 ELSE 18881)

\* a request for a file of another adapter went to the admin origin
C20_Witness ==
    /\ forwarded # Idle
    /\ forwarded.route = 2
    /\ forwarded.original = UrlPath(<<"adapter", "x", "x">>, FALSE)

\* C21: a request forwarded by the first route goes to the browser-sync
\* origin, with a leading /adapter/<adapterName>/ replaced by / and any other
\* path (one under /browser-sync/) unchanged; a request forwarded by the
\* second route goes to the admin origin with its path unchanged.
C21_PathRewritePerRoute ==
    forwarded # Idle =>
        LET o == forwarded.original
            n == Len(o.segs) IN
        /\ forwarded.route = 1 =>
             /\ forwarded.target = 18882
             /\ IF n >= 2 /\ o.segs[1] = "adapter" /\ o.segs[2] = AdapterName
                THEN /\ forwarded.path.segs = [i \in 1..(n - 2) |-> o.segs[i + 2]]
                     /\ forwarded.path.slash = (n = 2 \/ o.slash)
                ELSE forwarded.path = o
        /\ forwarded.route = 2 =>
             /\ forwarded.target = 18881
             /\ forwarded.path = o

\* /adapter/<adapterName>/x was forwarded to browser-sync as /x
C21_Witness ==
    /\ forwarded # Idle
    /\ forwarded.route = 1
    /\ forwarded.original = UrlPath(<<"adapter", AdapterName, "x">>, FALSE)
    /\ forwarded.path = UrlPath(<<"x">>, FALSE)

\* C22: an upgrade request for a path under neither prefix of the first
\* route is forwarded to the admin origin as an upgrade, whatever was handled
\* before it, and an upgrade request for a path under one of these prefixes
\* is forwarded to no origin.
C22_UpgradeOnlyOnAdminRoute ==
    upgraded # Idle =>
        IF C20_ForBrowserSync(upgraded.original)
        THEN upgraded.route = 0 /\ upgraded.target = 0
        ELSE /\ upgraded.route = 2
             /\ upgraded.target = 18881
             /\ upgraded.path = upgraded.original

\* C23: where a request goes depends on its path only, not on the requests
\* handled before it: an upgrade request for the path of the upgrade request
\* handled last goes where that one went.
C23_RoutingIsStateless ==
    [][(upgraded # Idle /\ upgraded' # Idle /\ upgraded'.original = upgraded.original)
          => upgraded' = upgraded]_vars

\* the adapter phase of runServer has begun: the adapter debugger was
\* spawned or startAdapterWatch was entered
AdapterPhase ==
    \/ children["debugger"].state # "none"
    \/ children["tsc"].state # "none"
    \/ runPc \in {"startTscWatch", "startFileSync", "serving"}
    \/ nodemon # "none"

\* C24: 'Admin is now reachable' is printed and the adapter debug / watch
\* phase is begun only after the server has emitted 'listening'.
C24_ReadyOnlyAfterListening ==
    (announced \/ AdapterPhase) => server.listened

\* the announcement has been made and the adapter debugger is running
C24_Witness ==
    /\ announced
    /\ server.state = "listening"
    /\ children["debugger"].state = "running"

\* C25: an 'error' of the server or a 'close' that nobody asked for, before
\* or after 'listening', is a failure of runServer for its caller: run()
\* rejects and the process is ended by main.
C25_ListenerFailureSurfaced ==
    (last.event \in {"error", "close"} /\ ~server.closeRequested) =>
        devserver.state # "running"

\* C26: after a SIGINT received while the server was listening, server.close
\* has been called and neither the controller nor the adapter debugger has
\* been sent a kill.
C26_SigintLeavesChildren ==
    (last.event = "SIGINT" /\ signals = 1 /\ server.listened /\ server.state = "closing") =>
        /\ server.closeRequested
        /\ children["controller"].kills = 0
        /\ children["debugger"].kills = 0

\* C27: when the process exits, every child started with spawn() that has
\* not emitted 'exit' is sent a kill, and a child that has emitted 'exit'
\* (or was never started) is sent none.
C27_ExitKillsLivingChildren ==
    [][(devserver.state = "exiting" /\ devserver'.state = "exited") =>
          \A c \in Children :
             children'[c].kills =
                children[c].kills + (IF children[c].state = "running" THEN 1 ELSE 0)]_vars

\* the process has exited after the controller did: parcel was killed, the
\* controller was not
C27_Witness ==
    /\ devserver.state = "exited"
    /\ last = Last("exit", "controller", 0)
    /\ children["controller"].kills = 0
    /\ children["parcel"].state = "running"
    /\ children["parcel"].kills = 1

\* run() rejects in this step
C28_RunRejects ==
    \/ last'.event = "stderr" /\ runPc = AwaitOf(last'.child)
    \/ last'.event \in {"error", "close"} /\ runPc = "listen"
    \/ last'.event = "watcherError"
    \/ last'.event = "SIGINT" /\ runPc = "startTscWatch"

\* C28: when the controller or the adapter debugger exits (with any code),
\* when nodemon quits and when run() rejects, the process ends with an exit
\* status that is not 0.
C28_ExitsNonZero ==
    [][(/\ devserver.state = "running"
        /\ \/ last'.event = "exit" /\ last'.child \in {"controller", "debugger"}
           \/ last'.event = "quit"
           \/ C28_RunRejects)
          => (devserver'.state = "exiting" /\ devserver'.code # 0)]_vars

\* the controller has exited with code 0 and the process with status 255
C28_Witness ==
    /\ devserver.state = "exited"
    /\ devserver.code = 255
    /\ last = Last("exit", "controller", 0)

\* the content c of a destination file is a map synthesized by addSourcemap
\* for the code file p
SynthesizedFor(p, c) ==
    c.type = "map" /\ c.mappings.kind = "identity" /\ c.mappings.source = p

\* C29: once the unlink event of a code file has been handled (no exception
\* left the callback), the file has not come back since, and no sync of the
\* file is in flight any more, the destination holds neither the file nor a
\* .map written by a sync of the file.
C29_UnlinkBeatsInFlightSync ==
    \A p \in CodePaths :
        (/\ ev.kind = "unlink" /\ ev.path = p /\ ~ev.raised
         /\ src[p] = Absent
         /\ ~InFlight(p))
        => /\ dest[p] = Absent
           /\ ~SynthesizedFor(p, dest[MapOf(p)])

\* C30: when a.js.map is in the working tree, every change of it has been
\* reported, its last sync succeeded and no sync of any file is in flight,
\* the destination a.js.map is not a map synthesized by a sync of a.js.
C30_MapNotOverwrittenByCodeSync ==
    (/\ tasks = <<>>
     /\ pending = {}
     /\ src[JsA] # Absent
     /\ src[MapA] # Absent /\ MapA \in watched
     /\ latest[MapA].res = "ok" /\ latest[MapA].kind = "patch")
    => ~SynthesizedFor(JsA, dest[MapA])

\* C31: in debug mode, in the step in which runServer spawns the controller
\* no source map patch started by copySourcemaps is still waiting to write
\* its destination file.
C31_PatchesWrittenBeforeController ==
    [][(children["controller"].state = "none" /\ children'["controller"].state = "running")
       => \A i \in 1..Len(tasks') : tasks'[i].kind # "patch"]_vars

\* C32: in debug mode with no .map file in the working tree, the
\* destination has no .map for a .js file that it does not have.
C32_NoMapWithoutInstalledFile ==
    findFiles("map") = {} =>
        \A p \in CodePaths : dest[p] = Absent => dest[MapOf(p)] = Absent

\* the calls the step of copySourcemaps left in flight are those of branch
\* kind for the files of set S, none of them copying from the working tree
C33_Started(kind, S) ==
    /\ \A i \in 1..Len(tasks') :
          tasks'[i].kind = kind /\ tasks'[i].path \in S
          /\ (kind = "attach" => ~tasks'[i].copyFromSrc)
    /\ \A p \in S :
          \/ \E i \in 1..Len(tasks') : tasks'[i].path = p
          \/ kind = "patch" /\ latest'[p].res = "fail" /\ latest'[p].kind = "patch"

\* C33: copySourcemaps takes one of two branches.  With a .map file in the
\* working tree patchSourcemap is run for every map found, and no map is
\* synthesized for a .js file; without one addSourcemap is run for every .js
\* file found with copyFromSrc = false, and a write of a code file in the
\* destination keeps its text, the reference comment aside.
C33_CopyBranches ==
    [][/\ (runPc = "copySourcemaps" /\ runPc' # "copySourcemaps") =>
            IF findFiles("map") # {}
            THEN C33_Started("patch", findFiles("map"))
            ELSE C33_Started("attach", findFiles("js"))
       /\ \A p \in CodePaths :
            /\ findFiles("map") # {} =>
                  (dest'[p] = dest[p] /\ dest'[MapOf(p)] # dest[MapOf(p)]
                      => ~SynthesizedFor(p, dest'[MapOf(p)]))
            /\ dest'[p] # dest[p] =>
                  (SameText(dest'[p], dest[p]) /\ dest'[p].ref = "own")]_vars

\* without source maps: the installed a.js has got its reference comment and
\* a synthesized map, and the controller was spawned afterwards
C33_Witness ==
    /\ findFiles("map") = {}
    /\ children["controller"].state = "running"
    /\ dest[JsA] = Code(1, TRUE, "own")
    /\ SynthesizedFor(JsA, dest[MapOf(JsA)])

\* C34: a SIGINT handled after runServer has registered its handler is
\* handled without an error: server.close() has been called on the server
\* that app.listen returned.
C34_SigintHandledWithoutError ==
    last.event = "SIGINT" =>
        (server.state # "uninitialized" /\ server.closeRequested)

\* C35: the process is never running while the controller has exited, and
\* once a SIGINT has been received and the controller has exited the
\* process eventually exits.
C35_ShutdownTerminates ==
    /\ [](children["controller"].state = "exited" => devserver.state # "running")
    /\ (signals > 0 /\ children["controller"].state = "exited")
          ~> (devserver.state = "exited")

\* after a SIGINT the controller has exited and so has the process
C35_Witness ==
    /\ signals > 0
    /\ server.closeRequested
    /\ last.event = "exit" /\ last.child = "controller"
    /\ devserver.state = "exited"

\* C36: on every SIGINT each child started with spawnAndAwaitOutput is sent
\* a kill by the handler, and when the output of the child is still awaited
\* the promise is rejected with 'SIGINT' (run() rejects and main ends the
\* process with process.exit(-1)).
C36_SigintKillsAndRejects ==
    [][signals' = signals + 1 =>
          \A c \in Awaited :
             children[c].state # "none" =>
                /\ children'[c].kills = children[c].kills + 1
                /\ runPc = AwaitOf(c) =>
                      (devserver'.state = "exiting" /\ devserver'.code = ExitStatus(-1))]_vars

\* C37: nodemon is started only when the promise of startFileSync has
\* resolved on 'ready'; startFileSync is called only when the server has
\* emitted 'listening' and, for an adapter with a watch:ts script, only on
\* the awaited output of tsc.
C37_WatchStartOrder ==
    [][/\ (nodemon = "none" /\ nodemon' # "none") =>
            (runPc = "startFileSync" /\ last'.event = "ready" /\ server.listened)
       /\ (runPc # "startFileSync" /\ runPc' = "startFileSync") =>
            /\ server'.listened
            /\ argv.runCommand = "watch"
            /\ argv.tsc => (runPc = "startTscWatch" /\ last' = Last("stdout", "tsc", 0))]_vars

\* nodemon runs for an adapter with a watch:ts script: tsc is running and
\* the server has listened
C37_Witness ==
    /\ nodemon = "running"
    /\ argv.tsc
    /\ children["tsc"].state = "running"
    /\ server.listened
    /\ last.event = "ready"

====
